---- MODULE Spec2Model ----
(***************************************************************************)
(* A model of the two Lambda handlers of the event pipeline:               *)
(*   src/lambda/api/app.py  (intake: HTTP request -> index item + blob)    *)
(*   src/lambda/etl/app.py  (transform: raw blob -> curated blob)          *)
(* Strings are TLC strings handled as character sequences (Len, SubSeq,    *)
(* \o); JSON text is parsed and printed character by character.            *)
(***************************************************************************)
EXTENDS Integers, Sequences, FiniteSets, TLC

(***************************************************************************)
(* Characters                                                              *)
(***************************************************************************)
\* The i-th character of s as a one-character string ("" past the end).
Char(s, i) == IF i >= 1 /\ i <= Len(s) THEN SubSeq(s, i, i) ELSE ""

\* Everything of s from position i on.
From(s, i) == SubSeq(s, i, Len(s))

\* s[i:i+len(p)] = p
StartsAt(s, i, p) == i + Len(p) - 1 <= Len(s) /\ SubSeq(s, i, i + Len(p) - 1) = p

Digits == "0123456789"
Lower == "abcdefghijklmnopqrstuvwxyz"
UpperCase == "ABCDEFGHIJKLMNOPQRSTUVWXYZ"
Quote == "\""
Backslash == "\\"
Newline == "\n"
Tab == "\t"

\* The 1-based position of character c in alphabet a, 0 when absent.
IndexIn(a, c) ==
  IF \E i \in 1..Len(a) : SubSeq(a, i, i) = c
  THEN CHOOSE i \in 1..Len(a) : SubSeq(a, i, i) = c
  ELSE 0

IsDigit(c) == c # "" /\ IndexIn(Digits, c) > 0

DigitVal(c) == IndexIn(Digits, c) - 1

\* str.upper() on the ASCII letters.
RECURSIVE Upper(_)
Upper(s) ==
  IF s = "" THEN ""
  ELSE LET c == Char(s, 1)
           k == IndexIn(Lower, c)
       IN (IF k > 0 THEN Char(UpperCase, k) ELSE c) \o Upper(From(s, 2))

\* int(text) for a string of decimal digits.
RECURSIVE ParseNat(_)
ParseNat(s) ==
  IF s = "" THEN 0
  ELSE 10 * ParseNat(SubSeq(s, 1, Len(s) - 1)) + DigitVal(Char(s, Len(s)))

\* "%0<w>d" % n for n >= 0.
RECURSIVE Pad(_, _)
Pad(n, w) ==
  IF w <= 0 THEN (IF n = 0 THEN "" ELSE ToString(n))
  ELSE Pad(n \div 10, w - 1) \o Char(Digits, (n % 10) + 1)

(***************************************************************************)
(* JSON values as Python holds them after json.loads.  A dict is the       *)
(* sequence of its <<key, value>> pairs in insertion order, keys unique.   *)
(***************************************************************************)
JNull == [k |-> "null"]
JTrue == [k |-> "bool", b |-> TRUE]
JFalse == [k |-> "bool", b |-> FALSE]
JNaN == [k |-> "float", f |-> "nan"]
JInf == [k |-> "float", f |-> "inf"]
JNegInf == [k |-> "float", f |-> "-inf"]
JNum(n) == [k |-> "int", n |-> n]
JStr(s) == [k |-> "str", s |-> s]
JArr(a) == [k |-> "list", a |-> a]
JObj(o) == [k |-> "dict", o |-> o]
EmptyDict == JObj(<<>>)

IsDict(v) == v.k = "dict"

\* key in d
HasKey(d, key) == \E i \in 1..Len(d.o) : d.o[i][1] = key

\* d[key]
Lookup(d, key) == d.o[CHOOSE i \in 1..Len(d.o) : d.o[i][1] = key][2]

\* d.get(key, default)
Get(d, key, default) == IF HasKey(d, key) THEN Lookup(d, key) ELSE default

\* d[key] = v: an existing key keeps its place, a new key goes last.
SetKey(d, key, v) ==
  IF HasKey(d, key)
  THEN JObj([i \in 1..Len(d.o) |-> IF d.o[i][1] = key THEN <<key, v>> ELSE d.o[i]])
  ELSE JObj(Append(d.o, <<key, v>>))

\* dict(pairs)
RECURSIVE DictOf(_)
DictOf(pairs) ==
  IF pairs = <<>> THEN EmptyDict
  ELSE LET n == Len(pairs)
       IN SetKey(DictOf(SubSeq(pairs, 1, n - 1)), pairs[n][1], pairs[n][2])

(***************************************************************************)
(* json.loads: the standard decoder on the characters of the text.         *)
(* Modelled: objects, arrays, strings with the escapes \" \\ \/ \n \t \r   *)
(* \f, integers, null/true/false and the literals NaN, Infinity and        *)
(* -Infinity that the decoder accepts.  A result is [ok, v, i]: whether    *)
(* the scan succeeded, the value, and the position after it.               *)
(***************************************************************************)
Fail == [ok |-> FALSE, v |-> JNull, i |-> 0]

Ok(v, i) == [ok |-> TRUE, v |-> v, i |-> i]

IsWs(c) == c = " " \/ c = Tab \/ c = Newline \/ c = "\r"

RECURSIVE SkipWs(_, _)
SkipWs(s, i) == IF IsWs(Char(s, i)) THEN SkipWs(s, i + 1) ELSE i

\* The first position from i on that holds a quote, a backslash or a
\* control character, or the position after the end.
RECURSIVE PlainEnd(_, _)
PlainEnd(s, i) ==
  IF Char(s, i) \in {"", Quote, Backslash, Newline, Tab, "\r", "\f"} THEN i
  ELSE PlainEnd(s, i + 1)

\* The characters of a string literal from position i (after the opening
\* quote) to its closing quote; a raw control character is refused.
RECURSIVE ScanString(_, _, _)
ScanString(s, i, acc) ==
  LET j == PlainEnd(s, i)
      sofar == acc \o SubSeq(s, i, j - 1)
      c == Char(s, j)
      e == Char(s, j + 1)
  IN IF c = "" THEN Fail
     ELSE IF c = Quote THEN Ok(sofar, j + 1)
     ELSE IF c # Backslash THEN Fail
     ELSE CASE e = Quote \/ e = Backslash \/ e = "/" -> ScanString(s, j + 2, sofar \o e)
            [] e = "n" -> ScanString(s, j + 2, sofar \o Newline)
            [] e = "t" -> ScanString(s, j + 2, sofar \o Tab)
            [] e = "r" -> ScanString(s, j + 2, sofar \o "\r")
            [] e = "f" -> ScanString(s, j + 2, sofar \o "\f")
            [] e \notin {Quote, Backslash, "/", "n", "t", "r", "f", "b", "u"} -> Fail

\* The end (exclusive) of the longest run of digits from position i.
RECURSIVE DigitsEnd(_, _)
DigitsEnd(s, i) == IF IsDigit(Char(s, i)) THEN DigitsEnd(s, i + 1) ELSE i

\* NUMBER_RE, integer part: -?(0|[1-9][0-9]*).
ScanInt(s, i) ==
  LET neg == Char(s, i) = "-"
      d == IF neg THEN i + 1 ELSE i
      e == IF Char(s, d) = "0" THEN d + 1 ELSE DigitsEnd(s, d)
  IN IF ~IsDigit(Char(s, d)) THEN Fail
     ELSE Ok(JNum(IF neg THEN 0 - ParseNat(SubSeq(s, d, e - 1))
                  ELSE ParseNat(SubSeq(s, d, e - 1))), e)

RECURSIVE ParseValue(_, _)
RECURSIVE Members(_, _, _)
RECURSIVE Elements(_, _, _)

\* JSONObject from the opening quote of a key at position j.
Members(s, j, pairs) ==
  LET key == ScanString(s, j + 1, "")
      colon == SkipWs(s, key.i)
      val == ParseValue(s, SkipWs(s, colon + 1))
      after == SkipWs(s, val.i)
      next == SkipWs(s, after + 1)
  IN IF ~key.ok THEN Fail
     ELSE IF Char(s, colon) # ":" THEN Fail
     ELSE IF ~val.ok THEN Fail
     ELSE IF Char(s, after) = "}"
          THEN Ok(DictOf(Append(pairs, <<key.v, val.v>>)), after + 1)
     ELSE IF Char(s, after) # "," THEN Fail
     ELSE IF Char(s, next) # Quote THEN Fail
     ELSE Members(s, next, Append(pairs, <<key.v, val.v>>))

\* JSONArray from the first element at position j.
Elements(s, j, acc) ==
  LET val == ParseValue(s, j)
      after == SkipWs(s, val.i)
  IN IF ~val.ok THEN Fail
     ELSE IF Char(s, after) = "]" THEN Ok(JArr(Append(acc, val.v)), after + 1)
     ELSE IF Char(s, after) # "," THEN Fail
     ELSE Elements(s, SkipWs(s, after + 1), Append(acc, val.v))

\* scan_once at position i.
ParseValue(s, i) ==
  LET c == Char(s, i)
      str == ScanString(s, i + 1, "")
      first == SkipWs(s, i + 1)
      num == ScanInt(s, i)
  IN IF c = "" THEN Fail
     ELSE IF c = Quote THEN (IF str.ok THEN Ok(JStr(str.v), str.i) ELSE Fail)
     ELSE IF c = "{"
          THEN IF Char(s, first) = "}" THEN Ok(EmptyDict, first + 1)
               ELSE IF Char(s, first) # Quote THEN Fail
               ELSE Members(s, first, <<>>)
     ELSE IF c = "["
          THEN IF Char(s, first) = "]" THEN Ok(JArr(<<>>), first + 1)
               ELSE Elements(s, first, <<>>)
     ELSE IF StartsAt(s, i, "null") THEN Ok(JNull, i + 4)
     ELSE IF StartsAt(s, i, "true") THEN Ok(JTrue, i + 4)
     ELSE IF StartsAt(s, i, "false") THEN Ok(JFalse, i + 5)
     ELSE IF num.ok THEN num
     ELSE IF StartsAt(s, i, "NaN") THEN Ok(JNaN, i + 3)
     ELSE IF StartsAt(s, i, "Infinity") THEN Ok(JInf, i + 8)
     ELSE IF StartsAt(s, i, "-Infinity") THEN Ok(JNegInf, i + 9)
     ELSE Fail

\* json.loads(s): [ok |-> FALSE] stands for JSONDecodeError.  Leading and
\* trailing whitespace is skipped; anything else after the value is
\* "Extra data".
Loads(s) ==
  LET r == ParseValue(s, SkipWs(s, 1))
  IN IF r.ok /\ SkipWs(s, r.i) = Len(s) + 1
     THEN [ok |-> TRUE, v |-> r.v]
     ELSE [ok |-> FALSE, v |-> JNull]

(***************************************************************************)
(* json.dumps with the default separators (", " and ": ").                 *)
(***************************************************************************)
\* The text of a string between its quotes: a quote, a backslash and a
\* control character are written as escapes, the rest as it is.
RECURSIVE Escape(_)
Escape(s) ==
  LET j == PlainEnd(s, 1)
      c == Char(s, j)
  IN IF c = "" THEN s
     ELSE SubSeq(s, 1, j - 1)
            \o Backslash
            \o (CASE c = Quote -> Quote
                  [] c = Backslash -> Backslash
                  [] c = Newline -> "n"
                  [] c = Tab -> "t"
                  [] c = "\r" -> "r"
                  [] c = "\f" -> "f")
            \o Escape(From(s, j + 1))

RECURSIVE Dumps(_)
RECURSIVE DumpItems(_)
RECURSIVE DumpPairs(_)

DumpItems(a) ==
  IF a = <<>> THEN ""
  ELSE IF Len(a) = 1 THEN Dumps(a[1])
  ELSE Dumps(a[1]) \o ", " \o DumpItems(Tail(a))

DumpPairs(o) ==
  LET one == Quote \o Escape(o[1][1]) \o Quote \o ": " \o Dumps(o[1][2])
  IN IF o = <<>> THEN ""
     ELSE IF Len(o) = 1 THEN one
     ELSE one \o ", " \o DumpPairs(Tail(o))

Dumps(v) ==
  CASE v.k = "null" -> "null"
    [] v.k = "bool" -> (IF v.b THEN "true" ELSE "false")
    [] v.k = "int" -> ToString(v.n)
    [] v.k = "float" ->
         (CASE v.f = "nan" -> "NaN" [] v.f = "inf" -> "Infinity" [] v.f = "-inf" -> "-Infinity")
    [] v.k = "str" -> Quote \o Escape(v.s) \o Quote
    [] v.k = "list" -> "[" \o DumpItems(v.a) \o "]"
    [] v.k = "dict" -> "{" \o DumpPairs(v.o) \o "}"

(***************************************************************************)
(* base64.b64decode(body).decode("utf-8")                                  *)
(***************************************************************************)
B64Alphabet == "ABCDEFGHIJKLMNOPQRSTUVWXYZabcdefghijklmnopqrstuvwxyz0123456789+/"

\* The printable ASCII characters with codes 32..95 and 97..126.
AsciiLow == " !\"#$%&'()*+,-./0123456789:;<=>?@ABCDEFGHIJKLMNOPQRSTUVWXYZ[\\]^_"
AsciiHigh == "abcdefghijklmnopqrstuvwxyz{|}~"

\* binascii.a2b_base64 without strict mode, from position i: characters
\* outside the alphabet are skipped, a completed pad sequence ends the
\* parse, and data left in an unfinished quad is "Incorrect padding".
\* quad is the position in the current quad, pads the pad characters seen
\* in it, left the bits carried over, out the bytes so far.
RECURSIVE A2bBase64(_, _, _, _, _, _)
A2bBase64(s, i, quad, pads, left, out) ==
  LET c == Char(s, i)
      v == IndexIn(B64Alphabet, c) - 1
  IN IF c = "" THEN [ok |-> quad = 0, bytes |-> out]
     ELSE IF c = "="
          THEN IF quad >= 2 /\ quad + pads + 1 >= 4
               THEN [ok |-> TRUE, bytes |-> out]
               ELSE A2bBase64(s, i + 1, quad, IF quad >= 2 THEN pads + 1 ELSE pads, left, out)
     ELSE IF v < 0 THEN A2bBase64(s, i + 1, quad, pads, left, out)
     ELSE CASE quad = 0 -> A2bBase64(s, i + 1, 1, 0, v, out)
            [] quad = 1 ->
                 A2bBase64(s, i + 1, 2, 0, v % 16, Append(out, left * 4 + (v \div 16)))
            [] quad = 2 ->
                 A2bBase64(s, i + 1, 3, 0, v % 4, Append(out, left * 16 + (v \div 4)))
            [] quad = 3 -> A2bBase64(s, i + 1, 0, 0, 0, Append(out, left * 64 + v))

B64Decode(s) == A2bBase64(s, 1, 0, 0, 0, <<>>)

\* bytes.decode("utf-8") on ASCII bytes; a byte 0xF8..0xFF is never valid
\* UTF-8 (UnicodeDecodeError).  Other bytes are outside the modelled inputs.
RECURSIVE Utf8Decode(_)
Utf8Decode(bytes) ==
  IF bytes = <<>> THEN [ok |-> TRUE, s |-> ""]
  ELSE LET b == Head(bytes)
           rest == Utf8Decode(Tail(bytes))
           c == CASE b >= 32 /\ b <= 95 -> Char(AsciiLow, b - 31)
                  [] b >= 97 /\ b <= 126 -> Char(AsciiHigh, b - 96)
                  [] b = 9 -> Tab
                  [] b = 10 -> Newline
                  [] b = 13 -> "\r"
       IN IF b >= 248 THEN [ok |-> FALSE, s |-> ""]
          ELSE IF ~rest.ok THEN rest
          ELSE [ok |-> TRUE, s |-> c \o rest.s]

(***************************************************************************)
(* datetime: a UTC datetime is its calendar fields.                        *)
(***************************************************************************)
\* datetime.fromtimestamp on an instant given as whole seconds since the
\* epoch (sec >= 0) and microseconds: the proleptic Gregorian calendar.
DatetimeOf(sec, us) ==
  LET days == sec \div 86400
      rem == sec % 86400
      z == days + 719468
      era == z \div 146097
      doe == z - era * 146097
      yoe == (doe - (doe \div 1460) + (doe \div 36524) - (doe \div 146096)) \div 365
      doy == doe - (365 * yoe + (yoe \div 4) - (yoe \div 100))
      mp == (5 * doy + 2) \div 153
      d == doy - ((153 * mp + 2) \div 5) + 1
      m == IF mp < 10 THEN mp + 3 ELSE mp - 9
      y == yoe + era * 400 + (IF m <= 2 THEN 1 ELSE 0)
  IN [year |-> y, month |-> m, day |-> d,
      hour |-> rem \div 3600, minute |-> (rem % 3600) \div 60, second |-> rem % 60,
      microsecond |-> us]

\* Days from 1970-01-01 to the date y-m-d.
DaysFromCivil(y, m, d) ==
  LET yy == IF m <= 2 THEN y - 1 ELSE y
      era == yy \div 400
      yoe == yy - era * 400
      doy == ((153 * (IF m > 2 THEN m - 3 ELSE m + 9) + 2) \div 5) + d - 1
      doe == yoe * 365 + (yoe \div 4) - (yoe \div 100) + doy
  IN era * 146097 + doe - 719468

\* int(now.timestamp()): (now - epoch).total_seconds() truncated; the
\* microseconds are the fraction that int() drops.
IntTimestamp(now) ==
  DaysFromCivil(now.year, now.month, now.day) * 86400
    + now.hour * 3600 + now.minute * 60 + now.second

\* str(now.date())
DateStr(now) == Pad(now.year, 4) \o "-" \o Pad(now.month, 2) \o "-" \o Pad(now.day, 2)

\* now.isoformat() of an aware UTC datetime: the fraction is printed only
\* when the microseconds are not zero.
IsoFormat(now) ==
  DateStr(now) \o "T" \o Pad(now.hour, 2) \o ":" \o Pad(now.minute, 2) \o ":"
    \o Pad(now.second, 2)
    \o (IF now.microsecond # 0 THEN "." \o Pad(now.microsecond, 6) ELSE "")
    \o "+00:00"

(***************************************************************************)
(* Python values in conditions and f-strings                               *)
(***************************************************************************)
\* bool(v)
Truthy(v) ==
  CASE v.k = "null" -> FALSE
    [] v.k = "bool" -> v.b
    [] v.k = "int" -> v.n # 0
    [] v.k = "float" -> TRUE
    [] v.k = "str" -> v.s # ""
    [] v.k = "list" -> v.a # <<>>
    [] v.k = "dict" -> v.o # <<>>

\* format(v) inside an f-string, for the scalar values.
PyFormat(v) ==
  CASE v.k = "null" -> "None"
    [] v.k = "bool" -> (IF v.b THEN "True" ELSE "False")
    [] v.k = "int" -> ToString(v.n)
    [] v.k = "float" -> v.f
    [] v.k = "str" -> v.s

(***************************************************************************)
(* Bounds and inputs                                                       *)
(***************************************************************************)
\* Concurrent intake invocations.
MaxInvocations == 2

\* Records in one transform batch.
MaxBatch == 2

Invocations == 1..MaxInvocations

\* str(uuid.uuid4()): version-4 identifiers, 36 characters each.
Uuid(n) == "00000000-0000-4000-8000-" \o Pad(n, 12)

Uuids == {Uuid(n) : n \in Invocations}

\* An HTTP API (v2) proxy event.
MkEvent(method, body, b64) ==
  JObj(<< <<"requestContext", JObj(<< <<"http", JObj(<< <<"method", JStr(method)>> >>)>> >>)>>,
          <<"body", JStr(body)>>,
          <<"isBase64Encoded", IF b64 THEN JTrue ELSE JFalse>> >>)

\* Request bodies of the intake handler, as sent.
GoodBodies ==
  { "{\"type\": \"click\", \"userId\": \"u1\", \"data\": {\"x\": 1}}",
    "{}",
    "",
    " {\"userId\":\"a/events/b\"} ",
    "{\"userId\": 7, \"type\": null}",
    "{\"type\": \"view\", \"type\": \"buy\", \"note\": \"say \\\"hi\\\"\"}",
    "{\"data\": NaN}" }

BadBodies ==
  { "{not json",
    "   ",
    "{\"type\": \"view\", \"userId\": \"u1\",}",
    "{\"a\": 1} x",
    "{\"a\": 01}",
    "{'userId': 'u1'}" }

\* Valid JSON texts that are not objects.
NonObjectBodies == { "[1, 2]", "null", "\"u1\"", "NaN" }

\* base64 texts: {}, {"userId": "u1"}, {not json, one byte 0xFF (not UTF-8),
\* and two that are not base64 (a lone data character; missing padding).
B64Bodies == { "e30=", "eyJ1c2VySWQiOiAidTEifQ==", "e25vdCBqc29u", "/w==", "Q", "e30" }

Requests ==
  {MkEvent("POST", b, FALSE) : b \in GoodBodies \cup BadBodies \cup NonObjectBodies}
    \cup {MkEvent("POST", b, TRUE) : b \in B64Bodies \cup {""}}
    \cup {MkEvent(m, b, FALSE) : m \in {"OPTIONS", "options"}, b \in {"", "{}", "{not json"}}
    \cup {MkEvent("OPTIONS", b, TRUE) : b \in {"Q", "/w==", "e30="}}
    \cup {MkEvent("GET", "{}", FALSE), MkEvent("", "{not json", FALSE)}
    \cup {EmptyDict,
          JObj(<< <<"requestContext", EmptyDict>>, <<"body", JNull>> >>),
          JObj(<< <<"requestContext", JObj(<< <<"http", JObj(<< <<"method", JNull>> >>)>> >>)>>,
                  <<"body", JStr("{not json")>> >>)}

\* Clock readings <<seconds since the epoch, microseconds>>: the end of a
\* year, midnight with no fraction, both ends of a leap day, a plain instant.
Clock ==
  { <<1704067199, 999999>>, <<1704067200, 0>>, <<1709164800, 1>>,
    <<1709251199, 500000>>, <<1762268400, 123456>>, <<951868799, 0>> }

\* The requests and clock readings of the concurrent runs.
FewRequests ==
  { MkEvent("POST", "{\"type\": \"click\", \"userId\": \"u1\", \"data\": {\"x\": 1}}", FALSE),
    MkEvent("POST", "", FALSE),
    MkEvent("POST", "{not json", FALSE) }

FewClock == { <<1704067199, 999999>>, <<1704067200, 0>> }

\* The request of the pipeline's intake invocation.
PipelineRequests == { MkEvent("POST", " {\"userId\":\"a/events/b\"} ", FALSE) }

(***************************************************************************)
(* src/lambda/api/app.py                                                   *)
(***************************************************************************)
Headers ==
  [h \in {"content-type", "access-control-allow-origin",
          "access-control-allow-methods", "access-control-allow-headers"} |->
     CASE h = "content-type" -> "application/json"
       [] h = "access-control-allow-origin" -> "*"
       [] h = "access-control-allow-methods" -> "GET,POST,OPTIONS"
       [] h = "access-control-allow-headers" -> "content-type,authorization"]

\* resp with every body passed through json.dumps.
resp_dumps_all(status, body) ==
  [statusCode |-> status, headers |-> Headers, body |-> Dumps(body)]

\* resp(status, body): a str body is sent as it is, anything else as JSON.
resp(status, body) ==
  [statusCode |-> status,
   headers |-> Headers,
   body |-> IF body.k = "str" THEN body.s ELSE Dumps(body)]

NoResponse == [statusCode |-> 0, headers |-> Headers, body |-> ""]

\* (event.get("requestContext", {}).get("http", {}).get("method") or "").upper()
method(event) ==
  LET m == Get(Get(Get(event, "requestContext", EmptyDict), "http", EmptyDict), "method", JNull)
  IN Upper(IF Truthy(m) THEN m.s ELSE "")

\* event.get("body") or ""
body(event) ==
  LET b == Get(event, "body", JNull)
  IN IF Truthy(b) THEN b.s ELSE ""

\* The body as text: [ok, s]; ~ok is the binascii.Error or the
\* UnicodeDecodeError of line 31.
decoded(event) ==
  LET raw == B64Decode(body(event))
  IN IF ~Truthy(Get(event, "isBase64Encoded", JNull)) THEN [ok |-> TRUE, s |-> body(event)]
     ELSE IF ~raw.ok THEN [ok |-> FALSE, s |-> ""]
     ELSE Utf8Decode(raw.bytes)

\* The exception line 31 raises on a body it cannot decode.
decode_error(event) ==
  IF ~B64Decode(body(event)).ok THEN "binascii.Error" ELSE "UnicodeDecodeError"

\* json.loads(body) if body else {}
payload(text) == IF text # "" THEN Loads(text) ELSE [ok |-> TRUE, v |-> EmptyDict]

event_type(p) == Get(p, "type", JStr("unknown"))

user_id(p) == Get(p, "userId", JStr("anonymous"))

pk(uid) == "USER#" \o PyFormat(uid)

\* The sort key of the timestamp alone.
sk_time_only(iso, event_id) == "TS#" \o iso

sk(iso, event_id) == "TS#" \o iso \o "#" \o event_id

\* The key with the timestamp where the date belongs.
raw_key_timestamp(uid, now, event_id) ==
  "events/userId=" \o PyFormat(uid) \o "/dt=" \o IsoFormat(now) \o "/" \o event_id \o ".json"

raw_key(uid, now, event_id) ==
  "events/userId=" \o PyFormat(uid) \o "/dt=" \o DateStr(now) \o "/" \o event_id \o ".json"

\* Thirty days counted with 60 seconds to the hour.
ttl_short(now) == IntTimestamp(now) + 30 * 24 * 60

ttl(now) == IntTimestamp(now) + 30 * 24 * 3600

\* Lines 50-58: the item, from the locals of lines 38-47.
item(etype, p_pk, p_sk, event_id, iso, key, now) ==
  [pk |-> p_pk,
   sk |-> p_sk,
   eventId |-> event_id,
   type |-> etype,
   createdAt |-> iso,
   rawS3Key |-> key,
   ttl |-> ttl(now)]

\* Line 62.
raw_obj(event_id, iso, p) ==
  JObj(<< <<"eventId", JStr(event_id)>>, <<"receivedAt", JStr(iso)>>, <<"payload", p>> >>)

Created(it) ==
  resp(201, JObj(<< <<"message", JStr("Stored")>>, <<"eventId", JStr(it.eventId)>>,
                    <<"rawKey", JStr(it.rawS3Key)>> >>))

BadRequest == resp(400, JObj(<< <<"message", JStr("Invalid JSON body")>> >>))

NoContent == resp(204, JStr(""))

(***************************************************************************)
(* State                                                                   *)
(***************************************************************************)
VARIABLES
  pc,            \* intake invocation -> where it stands
  event,         \* intake invocation -> the request it was given
  loc,           \* intake invocation -> its locals (text, payload, now, event_id)
  response,      \* intake invocation -> what it returned
  exc,           \* intake invocation -> the exception that ended it
  calls,         \* intake invocation -> the storage writes it has completed
  issued,        \* the identifiers uuid4 has returned
  table,         \* the key-value table: a set of items, one per (pk, sk)
  rawBucket,     \* the raw bucket: a set of objects, one per Key
  curatedBucket, \* the curated bucket
  etlPc,         \* the transform invocation: where it stands
  etlEvent,      \* the batch notification it was given
  etlIdx,        \* the 1-based index of the record being processed
  etlLoc,        \* its locals for that record (src_key, raw, dst_key, curated)
  etlResult,     \* what it returned
  etlExc,        \* the exception that ended it
  etlCalls       \* the curated writes it has completed

apiVars == <<pc, event, loc, response, exc, calls, issued, table, rawBucket>>

etlVars == <<curatedBucket, etlPc, etlEvent, etlIdx, etlLoc, etlResult, etlExc, etlCalls>>

vars == <<apiVars, etlVars>>

NoItem ==
  [pk |-> "", sk |-> "", eventId |-> "", type |-> JNull, createdAt |-> "",
   rawS3Key |-> "", ttl |-> 0]

\* The locals of an invocation; read is the clock reading now was made from.
NoLocals ==
  [text |-> "", payload |-> JNull, read |-> <<0, 0>>, now |-> DatetimeOf(0, 0), iso |-> "",
   event_id |-> "", item |-> NoItem]

NoEtlLocals == [src_key |-> "", raw |-> JNull, dst_key |-> "", curated |-> JNull]

\* table.put_item(Item=it): the item replaces the one with its (pk, sk).
put_item(tbl, it) == {x \in tbl : ~(x.pk = it.pk /\ x.sk = it.sk)} \cup {it}

\* s3.put_object(Bucket=.., Key=key, Body=data, ContentType="application/json")
put_object(bucket, key, data) ==
  {x \in bucket : x.Key # key}
    \cup {[Key |-> key, Body |-> data, ContentType |-> "application/json"]}

HasObject(bucket, key) == \E x \in bucket : x.Key = key

ObjectAt(bucket, key) == CHOOSE x \in bucket : x.Key = key

Init ==
  /\ pc = [i \in Invocations |-> "idle"]
  /\ event = [i \in Invocations |-> EmptyDict]
  /\ loc = [i \in Invocations |-> NoLocals]
  /\ response = [i \in Invocations |-> NoResponse]
  /\ exc = [i \in Invocations |-> ""]
  /\ calls = [i \in Invocations |-> <<>>]
  /\ issued = {}
  /\ table = {}
  /\ rawBucket = {}
  /\ curatedBucket = {}
  /\ etlPc = "idle"
  /\ etlEvent = EmptyDict
  /\ etlIdx = 0
  /\ etlLoc = NoEtlLocals
  /\ etlResult = JNull
  /\ etlExc = ""
  /\ etlCalls = <<>>

(***************************************************************************)
(* Intake handler, lines 18-70.  Everything up to the first storage call   *)
(* is local to the invocation and is one step; each storage call is one    *)
(* step, and either completes or raises.                                   *)
(***************************************************************************)
\* Lines 20-58, everything before the first storage call.  The preflight
\* returns 204; a body that cannot be decoded raises; a body that is not
\* JSON returns 400; a JSON value with no .get raises AttributeError.
\* Otherwise the clock is read (t), uuid4 returns an identifier it has not
\* returned before (u), and the invocation stands before table.put_item.
ApiInvoke(i, e, clock, uuids) ==
  LET d == decoded(e)
      p == payload(d.s)
      uid == user_id(p.v)
  IN /\ pc[i] = "idle"
     /\ event' = [event EXCEPT ![i] = e]
     /\ IF method(e) = "OPTIONS"
        THEN /\ pc' = [pc EXCEPT ![i] = "returned"]
             /\ response' = [response EXCEPT ![i] = NoContent]
             /\ UNCHANGED <<exc, loc, issued>>
        ELSE IF ~d.ok
        THEN /\ pc' = [pc EXCEPT ![i] = "raised"]
             /\ exc' = [exc EXCEPT ![i] = decode_error(e)]
             /\ UNCHANGED <<response, loc, issued>>
        ELSE IF ~p.ok
        THEN /\ pc' = [pc EXCEPT ![i] = "returned"]
             /\ response' = [response EXCEPT ![i] = BadRequest]
             /\ loc' = [loc EXCEPT ![i].text = d.s]
             /\ UNCHANGED <<exc, issued>>
        ELSE IF ~IsDict(p.v)
        THEN /\ pc' = [pc EXCEPT ![i] = "raised"]
             /\ exc' = [exc EXCEPT ![i] = "AttributeError"]
             /\ loc' = [loc EXCEPT ![i].text = d.s, ![i].payload = p.v]
             /\ UNCHANGED <<response, issued>>
        ELSE \E t \in clock, u \in uuids \ issued :
               LET now == DatetimeOf(t[1], t[2])
                   iso == IsoFormat(now)
               IN /\ loc' = [loc EXCEPT ![i] =
                               [text |-> d.s, payload |-> p.v, read |-> t, now |-> now,
                                iso |-> iso, event_id |-> u,
                                item |-> item(event_type(p.v), pk(uid), sk(iso, u), u, iso,
                                              raw_key(uid, now, u), now)]]
                  /\ issued' = issued \cup {u}
                  /\ pc' = [pc EXCEPT ![i] = "put_item"]
                  /\ UNCHANGED <<response, exc>>
     /\ UNCHANGED <<calls, table, rawBucket, etlVars>>

\* Line 60 left out: the invocation goes on to the envelope.
ApiPutItem_skipped(i) ==
  /\ pc[i] = "put_item"
  /\ pc' = [pc EXCEPT ![i] = "put_object"]
  /\ UNCHANGED <<event, loc, response, exc, calls, issued, table, rawBucket, etlVars>>

\* Line 60 completes.
ApiPutItem(i) ==
  LET it == loc[i].item
  IN /\ pc[i] = "put_item"
     /\ table' = put_item(table, it)
     /\ calls' = [calls EXCEPT ![i] = Append(@, [op |-> "put_item", Item |-> it])]
     /\ pc' = [pc EXCEPT ![i] = "put_object"]
     /\ UNCHANGED <<event, loc, response, exc, issued, rawBucket, etlVars>>

\* Line 60 raises and the failure is swallowed.
ApiPutItemRaises_swallowed(i) ==
  /\ pc[i] = "put_item"
  /\ pc' = [pc EXCEPT ![i] = "put_object"]
  /\ UNCHANGED <<event, loc, response, exc, calls, issued, table, rawBucket, etlVars>>

\* Line 60 raises: nothing catches it.
ApiPutItemRaises(i) ==
  /\ pc[i] = "put_item"
  /\ pc' = [pc EXCEPT ![i] = "raised"]
  /\ exc' = [exc EXCEPT ![i] = "put_item"]
  /\ UNCHANGED <<event, loc, response, calls, issued, table, rawBucket, etlVars>>

\* Lines 62-70: the envelope is written and the handler returns 201.
ApiPutObject(i) ==
  LET it == loc[i].item
      data == Dumps(raw_obj(loc[i].event_id, loc[i].iso, loc[i].payload))
  IN /\ pc[i] = "put_object"
     /\ rawBucket' = put_object(rawBucket, it.rawS3Key, data)
     /\ calls' = [calls EXCEPT ![i] =
                    Append(@, [op |-> "put_object", Key |-> it.rawS3Key, Body |-> data])]
     /\ response' = [response EXCEPT ![i] = Created(it)]
     /\ pc' = [pc EXCEPT ![i] = "returned"]
     /\ UNCHANGED <<event, loc, exc, issued, table, etlVars>>

\* Line 63 raises: the item of line 60 stays.
ApiPutObjectRaises(i) ==
  /\ pc[i] = "put_object"
  /\ pc' = [pc EXCEPT ![i] = "raised"]
  /\ exc' = [exc EXCEPT ![i] = "put_object"]
  /\ UNCHANGED <<event, loc, response, calls, issued, table, rawBucket, etlVars>>

ApiStep(i) ==
  \/ ApiPutItem(i)
  \/ ApiPutItemRaises(i)
  \/ ApiPutObject(i)
  \/ ApiPutObjectRaises(i)

(***************************************************************************)
(* src/lambda/etl/app.py                                                   *)
(***************************************************************************)
RAW_BUCKET == "raw-bucket"

CURATED_BUCKET == "curated-bucket"

\* One record of an ObjectCreated notification.
MkRecord(bucket, key) ==
  JObj(<< <<"s3", JObj(<< <<"bucket", JObj(<< <<"name", JStr(bucket)>> >>)>>,
                          <<"object", JObj(<< <<"key", JStr(key)>> >>)>> >>)>> >>)

MkBatch(records) == JObj(<< <<"Records", JArr(records)>> >>)

\* event.get("Records", [])
Records(ev) == Get(ev, "Records", JArr(<<>>)).a

\* Whether record["s3"]["bucket"]["name"] and record["s3"]["object"]["key"]
\* exist (otherwise KeyError).
HasS3(record) ==
  /\ HasKey(record, "s3")
  /\ HasKey(Lookup(record, "s3"), "bucket")
  /\ HasKey(Lookup(Lookup(record, "s3"), "bucket"), "name")
  /\ HasKey(Lookup(record, "s3"), "object")
  /\ HasKey(Lookup(Lookup(record, "s3"), "object"), "key")

src_bucket(record) == Lookup(Lookup(Lookup(record, "s3"), "bucket"), "name").s

src_key(record) == Lookup(Lookup(Lookup(record, "s3"), "object"), "key").s

\* s.find(sub) from position i on: the 1-based position, 0 when absent.
RECURSIVE Find(_, _, _)
Find(s, sub, i) ==
  IF i + Len(sub) - 1 > Len(s) THEN 0
  ELSE IF StartsAt(s, i, sub) THEN i
  ELSE Find(s, sub, i + 1)

\* s.replace(old, new, count) for a non-empty old.
RECURSIVE Replace(_, _, _, _)
Replace(s, old, new, count) ==
  LET at == Find(s, old, 1)
  IN IF count = 0 \/ at = 0 THEN s
     ELSE SubSeq(s, 1, at - 1) \o new
            \o Replace(From(s, at + Len(old)), old, new, count - 1)

\* The replacement without its count: every occurrence is replaced.
dst_key_all(key) == Replace(key, "events/", "curated/events/", -1)

dst_key(key) == Replace(key, "events/", "curated/events/", 1)

etl_payload(raw) == Get(raw, "payload", EmptyDict)

\* The record with type read from the envelope instead of its payload.
curated_flat(raw) ==
  JObj(<< <<"eventId", Get(raw, "eventId", JNull)>>,
          <<"receivedAt", Get(raw, "receivedAt", JNull)>>,
          <<"type", Get(raw, "type", JStr("unknown"))>>,
          <<"userId", Get(etl_payload(raw), "userId", JStr("anonymous"))>>,
          <<"data", Get(etl_payload(raw), "data", EmptyDict)>> >>)

curated(raw) ==
  JObj(<< <<"eventId", Get(raw, "eventId", JNull)>>,
          <<"receivedAt", Get(raw, "receivedAt", JNull)>>,
          <<"type", Get(etl_payload(raw), "type", JStr("unknown"))>>,
          <<"userId", Get(etl_payload(raw), "userId", JStr("anonymous"))>>,
          <<"data", Get(etl_payload(raw), "data", EmptyDict)>> >>)

EtlOk == JObj(<< <<"ok", JTrue>> >>)

\* The bucket a name stands for; an unknown name has no objects to get.
BucketNamed(name) ==
  IF name = RAW_BUCKET THEN rawBucket
  ELSE IF name = CURATED_BUCKET THEN curatedBucket
  ELSE {}

\* Lines 11-13: the handler is given a batch; with no records it returns.
EtlInvoke(ev) ==
  /\ etlPc = "idle"
  /\ etlEvent' = ev
  /\ IF Records(ev) = <<>>
     THEN /\ etlPc' = "returned"
          /\ etlResult' = EtlOk
          /\ UNCHANGED etlIdx
     ELSE /\ etlPc' = "get_object"
          /\ etlIdx' = 1
          /\ UNCHANGED etlResult
  /\ UNCHANGED <<apiVars, curatedBucket, etlLoc, etlExc, etlCalls>>

\* Lines 14-31 for the record at etlIdx: the keys are read, the object is
\* fetched and parsed, the curated record and its key are built.  A record
\* without the keys, a missing object, a body that is not JSON and a value
\* with no .get each raise.
EtlGetObject ==
  LET record == Records(etlEvent)[etlIdx]
      found == HasS3(record) /\ HasObject(BucketNamed(src_bucket(record)), src_key(record))
      raw == Loads(ObjectAt(BucketNamed(src_bucket(record)), src_key(record)).Body)
      shaped == raw.ok /\ IsDict(raw.v) /\ IsDict(etl_payload(raw.v))
  IN /\ etlPc = "get_object"
     /\ IF found /\ shaped
        THEN /\ etlLoc' = [src_key |-> src_key(record), raw |-> raw.v,
                           dst_key |-> dst_key(src_key(record)),
                           curated |-> curated(raw.v)]
             /\ etlPc' = "put_object"
             /\ UNCHANGED etlExc
        ELSE /\ etlPc' = "raised"
             /\ etlExc' = (IF ~HasS3(record) THEN "KeyError"
                           ELSE IF ~found THEN "get_object"
                           ELSE IF ~raw.ok THEN "JSONDecodeError"
                           ELSE "AttributeError")
             /\ UNCHANGED etlLoc
     /\ UNCHANGED <<apiVars, curatedBucket, etlEvent, etlIdx, etlResult, etlCalls>>

\* Line 17 raises although the object is there.
EtlGetObjectRaises ==
  LET record == Records(etlEvent)[etlIdx]
  IN /\ etlPc = "get_object"
     /\ HasS3(record)
     /\ etlPc' = "raised"
     /\ etlExc' = "get_object"
     /\ UNCHANGED <<apiVars, curatedBucket, etlEvent, etlIdx, etlLoc, etlResult, etlCalls>>

\* Lines 33-38 complete; after the last record the handler returns (line 40).
EtlPutObject ==
  LET data == Dumps(etlLoc.curated)
  IN /\ etlPc = "put_object"
     /\ curatedBucket' = put_object(curatedBucket, etlLoc.dst_key, data)
     /\ etlCalls' = Append(etlCalls, [src_key |-> etlLoc.src_key, Key |-> etlLoc.dst_key,
                                      Body |-> data])
     /\ IF etlIdx = Len(Records(etlEvent))
        THEN /\ etlPc' = "returned"
             /\ etlResult' = EtlOk
             /\ UNCHANGED etlIdx
        ELSE /\ etlPc' = "get_object"
             /\ etlIdx' = etlIdx + 1
             /\ UNCHANGED etlResult
     /\ UNCHANGED <<apiVars, etlEvent, etlLoc, etlExc>>

\* Line 33 raises and the failure is swallowed: the handler returns.
EtlPutObjectRaises_swallowed ==
  /\ etlPc = "put_object"
  /\ etlPc' = "returned"
  /\ etlResult' = EtlOk
  /\ UNCHANGED <<apiVars, curatedBucket, etlEvent, etlIdx, etlLoc, etlExc, etlCalls>>

\* Line 33 raises.
EtlPutObjectRaises ==
  /\ etlPc = "put_object"
  /\ etlPc' = "raised"
  /\ etlExc' = "put_object"
  /\ UNCHANGED <<apiVars, curatedBucket, etlEvent, etlIdx, etlLoc, etlResult, etlCalls>>

EtlStep ==
  \/ EtlGetObject
  \/ EtlGetObjectRaises
  \/ EtlPutObject
  \/ EtlPutObjectRaises

(***************************************************************************)
(* Specifications                                                          *)
(***************************************************************************)
\* Concurrent intake invocations on a few requests.  Identifiers are
\* interchangeable, so the one uuid4 gives invocation i is named Uuid(i).
Next ==
  \/ \E i \in Invocations, e \in FewRequests : ApiInvoke(i, e, FewClock, {Uuid(i)})
  \/ \E i \in Invocations : ApiStep(i)

Spec == Init /\ [][Next]_vars

\* One intake invocation on every request and clock reading.
NextIntake ==
  \/ \E e \in Requests : ApiInvoke(1, e, Clock, Uuids)
  \/ ApiStep(1)

SpecIntake == Init /\ [][NextIntake]_vars

\* Objects other writers left in the raw bucket: the envelope of the
\* specification's example; envelopes whose payload omits every field, that
\* have no payload, that have no eventId; a payload that is null; a body
\* that is not JSON; a body that is a JSON array.
Foreign ==
  put_object(put_object(put_object(put_object(put_object(put_object(put_object({},
    "events/userId=u1/dt=2024-01-01/abc.json",
    "{\"eventId\": \"abc\", \"receivedAt\": \"2024-01-01T00:00:00+00:00\", \"payload\": {\"type\": \"click\", \"userId\": \"u1\", \"data\": {\"x\": 1}}}"),
    "archive/events/2024/events/b.json",
    "{\"eventId\": \"b\", \"receivedAt\": \"2024-01-02T00:00:00+00:00\", \"payload\": {}}"),
    "misc/c.json",
    "{\"eventId\": \"c\", \"receivedAt\": \"2024-01-03T00:00:00+00:00\"}"),
    "events/d.json",
    "{\"receivedAt\": 5, \"payload\": {\"type\": null, \"data\": [1, \"two\"], \"extra\": true}}"),
    "events/e.json",
    "{\"eventId\": \"e\", \"payload\": null}"),
    "events/f.json",
    "{not json"),
    "events/g.json",
    "[1]")

InitEtl ==
  /\ pc = [i \in Invocations |-> "idle"]
  /\ event = [i \in Invocations |-> EmptyDict]
  /\ loc = [i \in Invocations |-> NoLocals]
  /\ response = [i \in Invocations |-> NoResponse]
  /\ exc = [i \in Invocations |-> ""]
  /\ calls = [i \in Invocations |-> <<>>]
  /\ issued = {}
  /\ table = {}
  /\ rawBucket = Foreign
  /\ curatedBucket = {}
  /\ etlPc = "idle"
  /\ etlEvent = EmptyDict
  /\ etlIdx = 0
  /\ etlLoc = NoEtlLocals
  /\ etlResult = JNull
  /\ etlExc = ""
  /\ etlCalls = <<>>

\* The records a notification may carry: one per object of the raw bucket,
\* one for an object that is not there, one without the s3 keys.
NotifiedRecords ==
  {MkRecord(RAW_BUCKET, x.Key) : x \in rawBucket}
    \cup {MkRecord(RAW_BUCKET, "events/missing.json"), EmptyDict}

Batches == UNION {[1..n -> NotifiedRecords] : n \in 0..MaxBatch}

\* The pipeline: one intake invocation, then the transform handler on a
\* batch of notifications.
NextEtl ==
  \/ \E e \in PipelineRequests : ApiInvoke(1, e, {<<1704067200, 0>>}, {Uuid(1)})
  \/ ApiStep(1)
  \/ \E b \in Batches : EtlInvoke(MkBatch(b))
  \/ EtlInvoke(EmptyDict)
  \/ EtlStep

SpecEtl == InitEtl /\ [][NextEtl]_vars

(***************************************************************************)
(* Properties of the intake handler                                        *)
(***************************************************************************)
\* The method a request carries, as sent ("" when it carries none).
SentMethod(e) ==
  IF /\ HasKey(e, "requestContext")
     /\ HasKey(Lookup(e, "requestContext"), "http")
     /\ HasKey(Lookup(Lookup(e, "requestContext"), "http"), "method")
     /\ Lookup(Lookup(Lookup(e, "requestContext"), "http"), "method").k = "str"
  THEN Lookup(Lookup(Lookup(e, "requestContext"), "http"), "method").s
  ELSE ""

IsPreflight(e) == Upper(SentMethod(e)) = "OPTIONS"

\* Whether a value holds none of NaN, Infinity, -Infinity.
RECURSIVE Finite(_)
Finite(v) ==
  CASE v.k = "float" -> FALSE
    [] v.k = "list" -> \A j \in 1..Len(v.a) : Finite(v.a[j])
    [] v.k = "dict" -> \A j \in 1..Len(v.o) : Finite(v.o[j][2])
    [] OTHER -> TRUE

\* A JSON text of RFC 8259: what the decoder accepts, less the three
\* literals that are no JSON.
ValidJson(text) == Loads(text).ok /\ Finite(Loads(text).v)

\* Invocation i was given a request that is no preflight and whose body
\* could be decoded to text.
HasText(i) ==
  /\ pc[i] # "idle"
  /\ ~IsPreflight(event[i])
  /\ exc[i] \notin {"binascii.Error", "UnicodeDecodeError"}

\* Invocation i has returned a client error and written nothing; with one
\* invocation, the stores are as they were.
Refused(i) ==
  /\ pc[i] = "returned"
  /\ response[i].statusCode = 400
  /\ calls[i] = <<>>
  /\ table = {}
  /\ rawBucket = {}

\* C1: a request that is no preflight and whose decoded body is not valid
\* JSON is answered 400 with no storage write.  The empty body, which the
\* handler is specified to take for {}, is left aside.
C1_InvalidJsonRefused ==
  \A i \in Invocations :
    HasText(i) /\ loc[i].text # "" /\ ~ValidJson(loc[i].text) => Refused(i)

\* C1, the part the handler keeps: a request that is no preflight and whose
\* decoded body is not empty and is rejected by json.loads is answered 400
\* with no write to the table or the raw bucket.
C1_MalformedBodyRefused ==
  \A i \in Invocations :
    HasText(i) /\ loc[i].text # "" /\ ~Loads(loc[i].text).ok => Refused(i)

\* A base64 body that decodes to text that is not JSON has been refused.
C1_Witness ==
  /\ Refused(1)
  /\ loc[1].text = "{not json"
  /\ Truthy(Get(event[1], "isBase64Encoded", JNull))
  /\ response[1].body = "{\"message\": \"Invalid JSON body\"}"

\* C2: a preflight, whatever its body and base64 flag, is answered 204 with
\* an empty body and the four headers, and writes nothing.
C2_PreflightNoContent ==
  \A i \in Invocations :
    pc[i] # "idle" /\ IsPreflight(event[i]) =>
      /\ pc[i] = "returned"
      /\ response[i].statusCode = 204
      /\ response[i].body = ""
      /\ DOMAIN response[i].headers =
           {"content-type", "access-control-allow-origin",
            "access-control-allow-methods", "access-control-allow-headers"}
      /\ response[i].headers["content-type"] = "application/json"
      /\ response[i].headers["access-control-allow-origin"] = "*"
      /\ response[i].headers["access-control-allow-methods"] = "GET,POST,OPTIONS"
      /\ response[i].headers["access-control-allow-headers"] = "content-type,authorization"
      /\ calls[i] = <<>>
      /\ table = {}
      /\ rawBucket = {}

\* A preflight whose body is flagged base64 and is no base64 was answered.
C2_Witness ==
  /\ pc[1] = "returned"
  /\ event[1] = MkEvent("OPTIONS", "Q", TRUE)
  /\ response[1].statusCode = 204

\* The userId and type the claim speaks of: the payload's, or the default.
ClaimedUser(p) ==
  IF ~HasKey(p, "userId") THEN "anonymous"
  ELSE IF Lookup(p, "userId").k = "str" THEN Lookup(p, "userId").s
  ELSE ToString(Lookup(p, "userId").n)

ClaimedType(p) == IF HasKey(p, "type") THEN Lookup(p, "type") ELSE JStr("unknown")

\* Seconds from the epoch to the second an ISO 8601 UTC timestamp names,
\* by counting the days of the years and months before it.
IsLeap(y) == y % 4 = 0 /\ (y % 100 # 0 \/ y % 400 = 0)

DaysBeforeYear(y) == (y - 1) * 365 + ((y - 1) \div 4) - ((y - 1) \div 100) + ((y - 1) \div 400)

DaysBeforeMonth(y, m) ==
  <<0, 31, 59, 90, 120, 151, 181, 212, 243, 273, 304, 334>>[m]
    + (IF m > 2 /\ IsLeap(y) THEN 1 ELSE 0)

EpochOfIso(iso) ==
  LET y == ParseNat(SubSeq(iso, 1, 4))
      m == ParseNat(SubSeq(iso, 6, 7))
      d == ParseNat(SubSeq(iso, 9, 10))
  IN (DaysBeforeYear(y) + DaysBeforeMonth(y, m) + d - DaysBeforeYear(1970) - 1) * 86400
       + ParseNat(SubSeq(iso, 12, 13)) * 3600
       + ParseNat(SubSeq(iso, 15, 16)) * 60
       + ParseNat(SubSeq(iso, 18, 19))

\* The item invocation i has put.
Written(i) == calls[i][1].Item

\* The value of a key in the JSON body of a response.
InBody(r, key) == Lookup(Loads(r.body).v, key)

\* C4: the index record of a JSON object payload with userId u and type t
\* (or the defaults) has pk = "USER#" + u, sk = "TS#" + createdAt + "#" +
\* eventId, type = t and rawS3Key = "events/userId=" + u + "/dt=" + the UTC
\* date of receipt + "/" + eventId + ".json"; createdAt names the second of
\* receipt, and eventId is the identifier in the 201 response.
C4_IndexRecordKeys ==
  \A i \in Invocations :
    calls[i] # <<>> =>
      LET it == Written(i)
          u == ClaimedUser(loc[i].payload)
      IN /\ it \in table
         /\ it.pk = "USER#" \o u
         /\ it.sk = "TS#" \o it.createdAt \o "#" \o it.eventId
         /\ it.type = ClaimedType(loc[i].payload)
         /\ EpochOfIso(it.createdAt) = loc[i].read[1]
         /\ it.rawS3Key =
              "events/userId=" \o u \o "/dt=" \o SubSeq(it.createdAt, 1, 10) \o "/"
                \o it.eventId \o ".json"
         /\ pc[i] = "returned" =>
              /\ response[i].statusCode = 201
              /\ InBody(response[i], "eventId") = JStr(it.eventId)

\* The record of a payload with no userId and no type, received in the last
\* microsecond of 2023, has been written and acknowledged.
C4_Witness ==
  /\ pc[1] = "returned"
  /\ response[1].statusCode = 201
  /\ loc[1].payload = EmptyDict
  /\ loc[1].read = <<1704067199, 999999>>
  /\ Written(1).pk = "USER#anonymous"
  /\ Written(1).type = JStr("unknown")
  /\ Written(1).rawS3Key =
       "events/userId=anonymous/dt=2023-12-31/" \o Written(1).eventId \o ".json"

\* C5: the ttl of every index record is the epoch second of its createdAt
\* plus 2,592,000.
C5_TtlThirtyDays ==
  \A it \in table :
    /\ it.ttl = EpochOfIso(it.createdAt) + 2592000
    /\ \E i \in Invocations : it = loc[i].item /\ EpochOfIso(it.createdAt) = loc[i].read[1]

\* A record received on a leap day, half a second before midnight.
C5_Witness ==
  \E it \in table :
    /\ it.createdAt = "2024-02-29T23:59:59.500000+00:00"
    /\ it.ttl = 1709251199 + 2592000

(***************************************************************************)
(* Properties of concurrent intake invocations                             *)
(***************************************************************************)
Succeeded(i) == pc[i] = "returned" /\ response[i].statusCode = 201

\* C3: an invocation that returned 201 has completed exactly two writes, the
\* item and then the envelope; the eventId and rawKey of its response are
\* those of the item and the key of the envelope; and whatever is in the
\* table or the raw bucket was written by an invocation whose body had been
\* parsed (or was empty and stood for {}).
C3_TwoWritesInOrder ==
  /\ \A i \in Invocations :
       /\ Succeeded(i) =>
            /\ Len(calls[i]) = 2
            /\ calls[i][1].op = "put_item"
            /\ calls[i][2].op = "put_object"
            /\ InBody(response[i], "eventId") = JStr(calls[i][1].Item.eventId)
            /\ InBody(response[i], "rawKey") = JStr(calls[i][1].Item.rawS3Key)
            /\ InBody(response[i], "rawKey") = JStr(calls[i][2].Key)
            /\ Lookup(Loads(calls[i][2].Body).v, "eventId") = InBody(response[i], "eventId")
       /\ calls[i] # <<>> =>
            /\ calls[i][1].op = "put_item"
            /\ loc[i].text = "" \/ Loads(loc[i].text).ok
  /\ \A it \in table : \E i \in Invocations : calls[i] # <<>> /\ calls[i][1].Item = it
  /\ \A x \in rawBucket :
       \E i \in Invocations :
         Len(calls[i]) = 2 /\ calls[i][2].Key = x.Key /\ calls[i][2].Body = x.Body

\* One invocation has returned 201 while another was refused.
C3_Witness ==
  \E i, j \in Invocations :
    /\ Succeeded(i)
    /\ Len(calls[i]) = 2
    /\ pc[j] = "returned"
    /\ response[j].statusCode = 400
    /\ calls[j] = <<>>

\* C8: two invocations that both returned 201 have different eventId, sk
\* and rawS3Key, and the item and the envelope of each are in the table and
\* in the raw bucket as that invocation wrote them.
C8_DistinctEvents ==
  \A i, j \in Invocations :
    i # j /\ Succeeded(i) /\ Succeeded(j) =>
      LET a == calls[i][1].Item
          b == calls[j][1].Item
      IN /\ a.eventId # b.eventId
         /\ a.sk # b.sk
         /\ a.rawS3Key # b.rawS3Key
         /\ a \in table
         /\ b \in table
         /\ \E x \in rawBucket : x.Key = calls[i][2].Key /\ x.Body = calls[i][2].Body
         /\ \E x \in rawBucket : x.Key = calls[j][2].Key /\ x.Body = calls[j][2].Body

\* Two invocations given the same request at the same clock reading have
\* both returned 201.
C8_Witness ==
  \E i, j \in Invocations :
    /\ i # j
    /\ Succeeded(i)
    /\ Succeeded(j)
    /\ event[i] = event[j]
    /\ loc[i].read = loc[j].read
    /\ loc[i].payload = loc[j].payload

Envelope(key) == Loads(ObjectAt(rawBucket, key).Body)

Field(d, key, default) == IF HasKey(d, key) THEN Lookup(d, key) ELSE default

\* The record the claim gives for envelope E.
ClaimedRecord(E) ==
  LET P == Field(E, "payload", EmptyDict)
  IN JObj(<< <<"eventId", Field(E, "eventId", JNull)>>,
             <<"receivedAt", Field(E, "receivedAt", JNull)>>,
             <<"type", Field(P, "type", JStr("unknown"))>>,
             <<"userId", Field(P, "userId", JStr("anonymous"))>>,
             <<"data", Field(P, "data", EmptyDict)>> >>)

\* C6: each curated object the handler wrote is the JSON text of the record
\* the claim gives for the envelope it read; and where the handler raised
\* anything but a storage failure, the notification record lacks its keys,
\* or the object is not JSON, or the envelope or its payload is a value that
\* is no mapping: a missing field raises nothing.
C6_CuratedRecord ==
  /\ \A j \in 1..Len(etlCalls) :
       /\ Envelope(etlCalls[j].src_key).ok
       /\ Loads(etlCalls[j].Body) =
            [ok |-> TRUE, v |-> ClaimedRecord(Envelope(etlCalls[j].src_key).v)]
  /\ etlPc = "raised" /\ etlExc \notin {"get_object", "put_object"} =>
       LET record == Records(etlEvent)[etlIdx]
       IN \/ ~HasS3(record)
          \/ ~Envelope(src_key(record)).ok
          \/ ~IsDict(Envelope(src_key(record)).v)
          \/ /\ HasKey(Envelope(src_key(record)).v, "payload")
             /\ ~IsDict(Lookup(Envelope(src_key(record)).v, "payload"))

\* The handler has written the records of an envelope with no payload and
\* of one whose payload omits userId and eventId.
C6_Witness ==
  /\ Len(etlCalls) = 2
  /\ etlCalls[1].src_key = "misc/c.json"
  /\ etlCalls[1].Body =
       "{\"eventId\": \"c\", \"receivedAt\": \"2024-01-03T00:00:00+00:00\", \"type\": \"unknown\", \"userId\": \"anonymous\", \"data\": {}}"
  /\ etlCalls[2].src_key = "events/d.json"
  /\ etlCalls[2].Body =
       "{\"eventId\": null, \"receivedAt\": 5, \"type\": null, \"userId\": \"anonymous\", \"data\": [1, \"two\"]}"

\* Whether "events/" stands at position p of k.
EventsAt(k, p) == p + 6 <= Len(k) /\ SubSeq(k, p, p + 6) = "events/"

\* Whether d is k with its first "events/" replaced by "curated/events/".
FirstReplaced(k, d) ==
  IF \A p \in 1..Len(k) : ~EventsAt(k, p) THEN d = k
  ELSE \E p \in 1..Len(k) :
         /\ EventsAt(k, p)
         /\ \A q \in 1..(p - 1) : ~EventsAt(k, q)
         /\ d = SubSeq(k, 1, p - 1) \o "curated/events/" \o SubSeq(k, p + 7, Len(k))

\* C7: the key of each curated object is the source key with its first
\* "events/" replaced by "curated/events/" and nothing else changed, and
\* for a source key the intake handler wrote it is "curated/" + that key.
C7_FirstOccurrenceReplaced ==
  \A j \in 1..Len(etlCalls) :
    /\ FirstReplaced(etlCalls[j].src_key, etlCalls[j].Key)
    /\ \A i \in Invocations :
         Len(calls[i]) = 2 /\ calls[i][2].Key = etlCalls[j].src_key =>
           etlCalls[j].Key = "curated/" \o etlCalls[j].src_key

\* The handler has written the curated object of an envelope the intake
\* handler stored for a userId that contains "events/", and of a foreign
\* key in which "events/" is neither first nor alone.
C7_Witness ==
  /\ Len(etlCalls) = 2
  /\ etlCalls[1].src_key = "archive/events/2024/events/b.json"
  /\ etlCalls[1].Key = "archive/curated/events/2024/events/b.json"
  /\ Len(calls[1]) = 2
  /\ etlCalls[2].src_key = calls[1][2].Key
  /\ etlCalls[2].Key =
       "curated/events/userId=a/events/b/dt=2024-01-01/" \o Uuid(1) \o ".json"

\* C9: the curated writes are those of the first records of the batch, in
\* order, and they are all in the curated bucket, which holds nothing else;
\* an invocation that raised on record i returned nothing and has written
\* exactly for the i - 1 records before it; {ok: true} is returned only
\* with one curated write for every record of the batch.
C9_BatchInOrderNoRollback ==
  /\ Len(etlCalls) <= Len(Records(etlEvent))
  /\ \A j \in 1..Len(etlCalls) :
       /\ HasS3(Records(etlEvent)[j])
       /\ etlCalls[j].src_key = src_key(Records(etlEvent)[j])
       /\ \E x \in curatedBucket : x.Key = etlCalls[j].Key /\ x.Body = etlCalls[j].Body
  /\ \A x \in curatedBucket : \E j \in 1..Len(etlCalls) : x.Key = etlCalls[j].Key
  /\ etlPc = "raised" => etlResult = JNull /\ Len(etlCalls) = etlIdx - 1
  /\ etlResult # JNull =>
       /\ etlPc = "returned"
       /\ etlResult = EtlOk
       /\ Len(etlCalls) = Len(Records(etlEvent))

\* The second record of a batch failed to parse after the first was written.
C9_Witness ==
  /\ etlPc = "raised"
  /\ etlExc = "JSONDecodeError"
  /\ etlIdx = 2
  /\ etlResult = JNull
  /\ Len(etlCalls) = 1
  /\ HasObject(curatedBucket, etlCalls[1].Key)
====
